---- MODULE Spec2Model ----
(***************************************************************************)
(* A model of the Canny-style edge detector of src/edge_detector.cpp and   *)
(* of the trackbar front end that calls it.                                *)
(*                                                                         *)
(* Representation of the program's values.                                 *)
(*                                                                         *)
(*  - A cv::Mat is a record [rows, cols, at], at a function on the pixel   *)
(*    coordinates <<y, x>>.                                                *)
(*  - A float is held as the integer of its IEEE-754 single precision      *)
(*    bit pattern; a negative float is the negative of the pattern of its  *)
(*    absolute value, so that floats other than NaN are ordered as their   *)
(*    integers are.  1.0 is 1065353216, 0.75 is 1061158912, NaN is         *)
(*    2143289344.  FAdd, FMul, SqrtHalf and RoundPack compute on these     *)
(*    patterns what the float operations of the code compute, rounding to  *)
(*    nearest, ties to even, in the normal range.                          *)
(*  - Source images hold integers (8-bit or 16-bit), so the Sobel          *)
(*    derivatives and the structure tensor are integer-valued floats; they *)
(*    are held as those integers, rounded as a float rounds them (Fl) and  *)
(*    converted by IntToFloat where the resolver starts.  Magnitudes,      *)
(*    thresholds and ratios are float patterns.                            *)
(*  - A threshold ratio comes from a trackbar percentage as                *)
(*    static_cast<float>(percent) / 100.0f (PercentToFloat).               *)
(*  - An angle is the float the code stores.  std::atan2 is the table      *)
(*    Atan2Half of the floats the C library returns, halved, for the       *)
(*    vectors <<numerator, denominator>> the resolver meets in this model; *)
(*    a vector is looked up by the shortest integer vector of its          *)
(*    direction.  CV_PI / 4 is 1061752795.                                 *)
(*  - std::cos(2 * theta) and std::sin(2 * theta) are the floats the C     *)
(*    library returns for those angles (Trig); the cosine at CV_PI / 4 is  *)
(*    -4.3711388e-08, not 0.                                               *)
(*  - Degrees are floats: angle * 180.0 / CV_PI is divided in double and   *)
(*    rounded to float (Degrees), and the addition of 180.0 rounds.        *)
(***************************************************************************)
EXTENDS Integers, Sequences, FiniteSets, TLC

VARIABLES
  \* EdgeDetector::applyThresholding, one scan step at a time
  suppressed, lowThreshold, highThreshold, strong, weak, edges, changed,
  hy, hx, hpc, passes,
  \* EdgeDetector::applySuppression, one pixel at a time
  gradients, nmsSuppressed, ny, nx, nq, nr, nbranch, npc,
  \* the gradient estimator and the resolver at one pixel
  isColor, gradientX, gradientY, tensor, magnitude, direction, gpc,
  \* EdgeDetector::process, one stage at a time
  params, blurred, ppc,
  \* EdgeDetectorUI: the trackbar positions and what processImages hands on
  uiParams, lowThr, highThr, sigma, kernelSize, upc

hystVars == <<suppressed, lowThreshold, highThreshold, strong, weak, edges,
              changed, hy, hx, hpc, passes>>

nmsVars == <<gradients, nmsSuppressed, ny, nx, nq, nr, nbranch, npc>>

gradVars == <<isColor, gradientX, gradientY, tensor, magnitude, direction, gpc>>

pipeVars == <<params, blurred, ppc>>

uiVars == <<uiParams, lowThr, highThr, sigma, kernelSize, upc>>

vars == <<hystVars, nmsVars, gradVars, pipeVars, uiVars>>

----------------------------------------------------------------------------
(* Bounds of the model and sample inputs.                                  *)

\* Interior size of the grids the hysteresis is run on (the grid has a
\* border ring of Border pixels around it).
InteriorRows == 1
InteriorCols == 2

\* Threshold ratios, in percent; low > high is included.
RatioSamples == {0, 15, 100}

\* The largest side of the grids non-maximum suppression is run on.
NmsDim == 3

\* Size of the images process is run on.
PipeRows == 3
PipeCols == 3

\* The sample directions are the floats up to DirMax floats away from a
\* multiple of pi / 8.
DirMax == 1

\* The derivatives at a pixel are in -MaxDeriv .. MaxDeriv.
MaxDeriv == 2

----------------------------------------------------------------------------
(* Values.                                                                 *)

Abs(a) == IF a < 0 THEN -a ELSE a

\* The float NaN (0x7FC00000), what std::sqrt returns for a negative number.
NaN == 2143289344

RECURSIVE Pow2(_)
Pow2(k) == IF k <= 0 THEN 1 ELSE 2 * Pow2(k - 1)

\* The number of binary digits of n >= 0.
RECURSIVE BitLen(_)
BitLen(n) == IF n = 0 THEN 0 ELSE 1 + BitLen(n \div 2)

\* A float other than NaN is mant * 2^expo, negated if the pattern is.
Mant(f) ==
  LET a == Abs(f)
  IN IF a \div 8388608 = 0 THEN a ELSE 8388608 + (a % 8388608)

Expo(f) ==
  LET a == Abs(f)
  IN IF a \div 8388608 = 0 THEN -149 ELSE (a \div 8388608) - 150

\* The float nearest to m * 2^e (negated if neg), a tie to the even
\* significand, for 0 <= m < 2^31.  Where m stands for a longer number, its
\* lowest bit is set if any of the digits left out is.
RoundPack(neg, m, e) ==
  LET len == BitLen(m)
      te == IF e + len - 24 > -149 THEN e + len - 24 ELSE -149
      shift == te - e
      q == IF shift <= 0 THEN m * Pow2(0 - shift)
           ELSE IF shift > 30 THEN 0 ELSE m \div Pow2(shift)
      rem == IF shift <= 0 THEN 0
             ELSE IF shift > 30 THEN 0 ELSE m % Pow2(shift)
      half == IF shift <= 0 \/ shift > 30 THEN 1 ELSE Pow2(shift - 1)
      up == rem > half \/ (rem = half /\ q % 2 = 1)
      r == IF up THEN q + 1 ELSE q
      pattern == IF r = 0 THEN 0 ELSE (te + 149) * 8388608 + r
  IN IF neg THEN 0 - pattern ELSE pattern

\* An integer converted to float.
IntToFloat(n) == RoundPack(n < 0, Abs(n), 0)

\* a * b in float.  The 48-bit product of the significands is put together
\* from the products of their 12-bit halves.
FMul(a, b) ==
  IF a = NaN \/ b = NaN THEN NaN
  ELSE IF a = 0 \/ b = 0 THEN 0
  ELSE LET ma == Mant(a)
           mb == Mant(b)
           a1 == ma \div 4096
           a0 == ma % 4096
           b1 == mb \div 4096
           b0 == mb % 4096
           mid == a1 * b0 + a0 * b1
           low == (mid % 4096) * 4096 + a0 * b0
           upper == a1 * b1 + (mid \div 4096) + (low \div 16777216)
           lower == low % 16777216
           sticky == IF lower % 2097152 = 0 THEN 0 ELSE 1
           top == upper * 8 + (lower \div 2097152)
           m == IF top % 2 = 0 THEN top + sticky ELSE top
       IN RoundPack((a < 0) # (b < 0), m, Expo(a) + Expo(b) + 21)

\* a + b in float: the smaller operand is shifted to the exponent of the
\* larger one, three digits below its last place.
FAdd(a, b) ==
  IF a = NaN \/ b = NaN THEN NaN
  ELSE IF a = 0 THEN b
  ELSE IF b = 0 THEN a
  ELSE LET big == IF Expo(a) >= Expo(b) THEN a ELSE b
           small == IF Expo(a) >= Expo(b) THEN b ELSE a
           d == Expo(big) - Expo(small)
           A == Mant(big) * 8
           whole == Mant(small) * 8
           B0 == whole \div Pow2(d)
           sticky == IF whole % Pow2(d) = 0 THEN 0 ELSE 1
           B == IF B0 % 2 = 0 THEN B0 + sticky ELSE B0
           S == (IF big < 0 THEN 0 - A ELSE A) + (IF small < 0 THEN 0 - B ELSE B)
       IN IF d >= 27 THEN big ELSE RoundPack(S < 0, Abs(S), Expo(big) - 3)

\* a >= b and a < b on floats: false if either is NaN.
FGe(a, b) == a # NaN /\ b # NaN /\ a >= b

FLt(a, b) == a # NaN /\ b # NaN /\ a < b

\* The square root of n * 2^26, two binary digits of n at a time from the
\* top: root and rem are the root and the remainder of the pairs above i.
RECURSIVE SqrtDigits(_, _, _, _)
SqrtDigits(n, i, root, rem) ==
  IF i < 0 THEN [root |-> root, rem |-> rem]
  ELSE LET pair == IF i >= 13 THEN (n \div Pow2(2 * (i - 13))) % 4 ELSE 0
           r == 4 * rem + pair
           trial == 4 * root + 1
       IN IF r >= trial THEN SqrtDigits(n, i - 1, 2 * root + 1, r - trial)
          ELSE SqrtDigits(n, i - 1, 2 * root, r)

\* std::sqrt(0.5 * x) stored in a float, for a float x.
SqrtHalf(x) ==
  IF x = NaN \/ x < 0 THEN NaN
  ELSE IF x = 0 THEN 0
  ELSE LET len == BitLen(Mant(x))
           m == Mant(x) * Pow2(24 - len)
           e1 == Expo(x) - (24 - len) - 1
           n == IF e1 % 2 = 0 THEN m ELSE 2 * m
           e == IF e1 % 2 = 0 THEN e1 ELSE e1 - 1
           s == SqrtDigits(n, 25, 0, 0)
       IN RoundPack(FALSE, 2 * s.root + (IF s.rem = 0 THEN 0 ELSE 1), (e \div 2) - 14)

\* The divisor of the trackbar percentages (part_001:71-72).
RatioScale == 100

\* n doubled until the quotient by RatioScale has 24 digits, with the
\* number of doublings.
RECURSIVE ScaleUp(_, _)
ScaleUp(n, k) ==
  IF n >= RatioScale * 8388608 THEN <<n, k>> ELSE ScaleUp(2 * n, k + 1)

\* static_cast<float>(percent) / 100.0f, part_001:71-72.
PercentToFloat(percent) ==
  IF percent = 0 THEN 0
  ELSE LET sc == ScaleUp(percent, 0)
           q == sc[1] \div RatioScale
           rem == sc[1] % RatioScale
           up == 2 * rem > RatioScale \/ (2 * rem = RatioScale /\ q % 2 = 1)
       IN RoundPack(FALSE, IF up THEN q + 1 ELSE q, 0 - sc[2])

\* Magnitudes the suppressed grids are filled with: 0, 0.75 and 5.  The
\* float 0.15f * 5 is 0.75: the product 0.7500000298 is rounded down.
MagSamples == {0, RoundPack(FALSE, 3, -2), IntToFloat(5)}

\* Width of the ring the scans leave out: loops run from 1 to size - 2.
Border == 1

Pix(rows, cols) == (0 .. rows - 1) \X (0 .. cols - 1)

Interior(rows, cols) == (Border .. rows - 1 - Border) \X (Border .. cols - 1 - Border)

\* cv::Mat::zeros(size, type)
Zeros(rows, cols) ==
  [rows |-> rows, cols |-> cols, at |-> [p \in Pix(rows, cols) |-> 0]]

\* The pixels of an 8-bit mask that are set.
Set255(m) == {p \in DOMAIN m.at : m.at[p] = 255}

\* The parts of the program a specification leaves out are at rest.
IdleHyst ==
  /\ suppressed = Zeros(0, 0)
  /\ lowThreshold = 0
  /\ highThreshold = 0
  /\ strong = Zeros(0, 0)
  /\ weak = Zeros(0, 0)
  /\ edges = Zeros(0, 0)
  /\ changed = FALSE
  /\ hy = 0
  /\ hx = 0
  /\ hpc = "idle"
  /\ passes = 0

IdleNms ==
  /\ gradients = [magnitude |-> Zeros(0, 0), direction |-> Zeros(0, 0)]
  /\ nmsSuppressed = Zeros(0, 0)
  /\ ny = 0
  /\ nx = 0
  /\ nq = 0
  /\ nr = 0
  /\ nbranch = 0
  /\ npc = "idle"

IdleGrad ==
  /\ isColor = FALSE
  /\ gradientX = <<>>
  /\ gradientY = <<>>
  /\ tensor = <<>>
  /\ magnitude = <<>>
  /\ direction = <<>>
  /\ gpc = "idle"

IdlePipe ==
  /\ params = <<>>
  /\ blurred = Zeros(0, 0)
  /\ ppc = "idle"

IdleUi ==
  /\ uiParams = <<>>
  /\ lowThr = 0
  /\ highThr = 0
  /\ sigma = 0
  /\ kernelSize = 0
  /\ upc = "idle"

----------------------------------------------------------------------------
(* EdgeDetector::applyThresholding (edge_detector.cpp:254-297).            *)

\* cv::minMaxLoc(suppressed, nullptr, &maxVal)
MinMaxLoc(m) ==
  CHOOSE v \in {m.at[p] : p \in DOMAIN m.at} : \A q \in DOMAIN m.at : v >= m.at[q]

\* float highThr = highThreshold * maxVal, lines 259-260: the product of the
\* float ratio and the double maxVal is exact in double and is rounded
\* once, to float.
Threshold(ratio, maxVal) == FMul(ratio, maxVal)

\* val >= highThr, val >= lowThr, lines 268-269.
AtLeastThr(val, thr) == FGe(val, thr)

\* The classification loop, lines 262-271.
StrongOf(sup, high) ==
  LET thrHigh == Threshold(high, MinMaxLoc(sup))
  IN [rows |-> sup.rows, cols |-> sup.cols,
      at |-> [p \in DOMAIN sup.at |->
                IF AtLeastThr(sup.at[p], thrHigh) THEN 255 ELSE 0]]

WeakOfNoLowTest(sup, low, high) ==
  LET thrHigh == Threshold(high, MinMaxLoc(sup))
  IN [rows |-> sup.rows, cols |-> sup.cols,
      at |-> [p \in DOMAIN sup.at |->
                IF AtLeastThr(sup.at[p], thrHigh) THEN 0 ELSE 255]]

WeakOf(sup, low, high) ==
  LET maxVal == MinMaxLoc(sup)
      thrHigh == Threshold(high, maxVal)
      thrLow == Threshold(low, maxVal)
  IN [rows |-> sup.rows, cols |-> sup.cols,
      at |-> [p \in DOMAIN sup.at |->
                IF AtLeastThr(sup.at[p], thrHigh) THEN 0
                ELSE IF AtLeastThr(sup.at[p], thrLow) THEN 255 ELSE 0]]

\* The neighbour offsets, lines 275-276.
dxNoDiagonal == <<0, 0, 0, -1, 1, 0, 0, 0>>

dx == <<-1, 0, 1, -1, 1, -1, 0, 1>>

dy == <<-1, -1, -1, 0, 0, 1, 1, 1>>

\* Lines 283-291 at pixel <<y, x>>: whether the pixel is promoted.
PromotesNoWeakTest(e, w, y, x) ==
  /\ e.at[<<y, x>>] = 0
  /\ \E i \in 1 .. 8 : e.at[<<y + dy[i], x + dx[i]>>] = 255

Promotes(e, w, y, x) ==
  /\ w.at[<<y, x>>] = 255
  /\ e.at[<<y, x>>] = 0
  /\ \E i \in 1 .. 8 : e.at[<<y + dy[i], x + dx[i]>>] = 255

\* The edges after lines 283-291 at pixel <<y, x>>.
PromotePixel(e, w, y, x) ==
  IF Promotes(e, w, y, x)
  THEN [e EXCEPT !.at = [e.at EXCEPT ![<<y, x>>] = 255]]
  ELSE e

\* Whether the two for loops of lines 281-282 have a first pixel.
HasInterior(m) == m.rows - Border > Border /\ m.cols - Border > Border

\* Lines 256-273: thresholds, strong, weak, edges = strong.clone(); then the
\* do loop is entered (line 280) and the scan starts at <<1, 1>>.
Classify ==
  /\ hpc = "classify"
  /\ strong' = StrongOf(suppressed, highThreshold)
  /\ weak' = WeakOf(suppressed, lowThreshold, highThreshold)
  /\ edges' = strong'
  /\ changed' = FALSE
  /\ passes' = 1
  /\ hy' = Border
  /\ hx' = Border
  /\ hpc' = IF HasInterior(suppressed) THEN "scan" ELSE "while"
  /\ UNCHANGED <<suppressed, lowThreshold, highThreshold>>
  /\ UNCHANGED <<nmsVars, gradVars, pipeVars, uiVars>>

\* One iteration of the inner for loop, lines 282-292, and the loop
\* increments that follow it.
ScanPixel ==
  /\ hpc = "scan"
  /\ edges' = PromotePixel(edges, weak, hy, hx)
  /\ changed' = (changed \/ Promotes(edges, weak, hy, hx))
  /\ IF hx + 1 < edges.cols - Border
     THEN hx' = hx + 1 /\ hy' = hy /\ hpc' = "scan"
     ELSE IF hy + 1 < edges.rows - Border
          THEN hx' = Border /\ hy' = hy + 1 /\ hpc' = "scan"
          ELSE hx' = Border /\ hy' = Border /\ hpc' = "while"
  /\ UNCHANGED <<suppressed, lowThreshold, highThreshold, strong, weak, passes>>
  /\ UNCHANGED <<nmsVars, gradVars, pipeVars, uiVars>>

\* The edges a new pass starts from (the loop keeps them).
PassStartReclone(e, s) == s

PassStart(e, s) == e

\* The value of changed at the start of a pass, line 280.
ChangedAtPassStartKept(c) == c

ChangedAtPassStart(c) == FALSE

\* Line 294, while (changed): another pass (line 280) or return edges.
EndPass ==
  /\ hpc = "while"
  /\ IF changed
     THEN /\ hpc' = IF HasInterior(suppressed) THEN "scan" ELSE "while"
          /\ changed' = ChangedAtPassStart(changed)
          /\ edges' = PassStart(edges, strong)
          /\ passes' = passes + 1
     ELSE /\ hpc' = "done"
          /\ UNCHANGED <<changed, edges, passes>>
  /\ UNCHANGED <<suppressed, lowThreshold, highThreshold, strong, weak, hy, hx>>
  /\ UNCHANGED <<nmsVars, gradVars, pipeVars, uiVars>>

\* The grids the hysteresis is started on: every interior pixel takes any
\* sample magnitude; the border ring is zero but for at most one pixel.
HystRows == InteriorRows + 2 * Border
HystCols == InteriorCols + 2 * Border

BorderRing(rows, cols) == Pix(rows, cols) \ Interior(rows, cols)

HystGrids(rows, cols) ==
  LET P == Pix(rows, cols)
      I == Interior(rows, cols)
      B == BorderRing(rows, cols)
      Marks == {<<b, m>> : b \in B, m \in MagSamples}
  IN {[rows |-> rows, cols |-> cols,
       at |-> [p \in P |-> IF p \in I THEN f[p]
                           ELSE IF p = k[1] THEN k[2] ELSE 0]] :
        f \in [I -> MagSamples], k \in Marks}

InitHyst ==
  /\ suppressed \in HystGrids(HystRows, HystCols)
  /\ lowThreshold \in {PercentToFloat(r) : r \in RatioSamples}
  /\ highThreshold \in {PercentToFloat(r) : r \in RatioSamples}
  /\ strong = Zeros(HystRows, HystCols)
  /\ weak = Zeros(HystRows, HystCols)
  /\ edges = Zeros(HystRows, HystCols)
  /\ changed = FALSE
  /\ hy = Border
  /\ hx = Border
  /\ hpc = "classify"
  /\ passes = 0
  /\ IdleNms
  /\ IdleGrad
  /\ IdlePipe
  /\ IdleUi

NextHyst == Classify \/ ScanPixel \/ EndPass

SpecHyst == InitHyst /\ [][NextHyst]_vars

----------------------------------------------------------------------------
(* Hysteresis: what the specification says of it.                          *)

\* Strong and weak pixels as the specification classifies them:
\* strong if val >= high * M, weak if low * M <= val < high * M, the
\* products being floats as the values are.
SpecStrong ==
  LET highM == FMul(highThreshold, MinMaxLoc(suppressed))
  IN {p \in DOMAIN suppressed.at : FGe(suppressed.at[p], highM)}

SpecWeak ==
  LET M == MinMaxLoc(suppressed)
      lowM == FMul(lowThreshold, M)
      highM == FMul(highThreshold, M)
  IN {p \in DOMAIN suppressed.at :
        FGe(suppressed.at[p], lowM) /\ FLt(suppressed.at[p], highM)}

SpecInteriorWeak == SpecWeak \cap Interior(suppressed.rows, suppressed.cols)

\* 8-adjacency: the eight pixels that surround a pixel.
Adjacent8(p, q) ==
  p # q /\ Abs(p[1] - q[1]) <= 1 /\ Abs(p[2] - q[2]) <= 1

\* S with the pixels of W joined to it by a path of pixels of W: grown a
\* whole layer at a time.
RECURSIVE Grow(_, _)
Grow(S, W) ==
  LET new == {p \in W \ S : \E q \in S : Adjacent8(p, q)}
  IN IF new = {} THEN S ELSE Grow(S \cup new, W)

\* The same set by a flood fill that takes the accepted pixels off a work
\* queue one at a time and queues the pixels it accepts.
RECURSIVE SetToSeq(_)
SetToSeq(S) ==
  IF S = {} THEN <<>>
  ELSE LET p == CHOOSE q \in S : TRUE IN <<p>> \o SetToSeq(S \ {p})

RECURSIVE FloodFill(_, _, _)
FloodFill(queue, accepted, W) ==
  IF queue = <<>> THEN accepted
  ELSE LET new == {p \in W \ accepted : Adjacent8(p, Head(queue))}
       IN FloodFill(Tail(queue) \o SetToSeq(new), accepted \cup new, W)

\* C1: the mask applyThresholding returns is the strong pixels together
\* with the interior weak pixels joined to a strong pixel by 8-adjacent
\* steps through interior weak pixels; the repeated row-major scans, the
\* layer-wise growth and the queue-based flood fill all end in this set.
C1_MaskIsConnectedSet ==
  hpc = "done" =>
    LET S == SpecStrong
        W == SpecInteriorWeak
    IN /\ Set255(edges) = Grow(S, W)
       /\ Set255(edges) = FloodFill(SetToSeq(S), S, W)

\* A chain promoted against the scan order, one pixel in each pass.
C1_Witness == hpc = "done" /\ passes >= 3 /\ Set255(edges) # Set255(strong)

\* The weak interior pixels not promoted yet, and the passes that may still
\* follow the current one: each of them but the last promotes a pixel.
Unpromoted == (Set255(weak) \ Set255(edges)) \cap Interior(weak.rows, weak.cols)

PassesLeft == Cardinality(Unpromoted) + (IF changed THEN 1 ELSE 0)

\* The scan steps left in the current pass, the test of line 294 included.
StepsLeft ==
  LET ic == edges.cols - 2 * Border
      ir == edges.rows - 2 * Border
  IN IF hpc = "scan" THEN (ir - (hy - Border)) * ic - (hx - Border) + 1 ELSE 1

\* A bound on the steps the loop has yet to take.
Variant ==
  LET n == Cardinality(Interior(suppressed.rows, suppressed.cols))
  IN CASE hpc = "done" -> 0
       [] hpc = "classify" -> (n + 1) * (n + 1) + n + 2
       [] OTHER -> PassesLeft * (n + 1) + StepsLeft

C2_PassBound ==
  passes <= Cardinality(Set255(weak) \cap Interior(weak.rows, weak.cols)) + 1

\* C2: the do/while loop ends, and within (weak interior pixels + 1)
\* passes: every step of the loop lowers a bound on the steps that are
\* left, which is never negative, and the pass count stays within its bound.
C2_Terminates ==
  [][/\ Variant' < Variant
     /\ Variant' >= 0
     /\ C2_PassBound'
     /\ hpc' \in {"scan", "while", "done"}]_vars

\* The bound is met: as many passes as there are weak interior pixels, and one.
C2_Witness ==
  /\ hpc = "done"
  /\ passes = Cardinality(Set255(weak) \cap Interior(weak.rows, weak.cols)) + 1
  /\ passes >= 3

\* C3: a pixel marked edge stays marked, in every step of every pass, and
\* the strong pixels are marked from the first pass on.
C3_Monotone ==
  [][/\ Set255(edges) \subseteq Set255(edges')
     /\ Set255(strong') \subseteq Set255(edges')]_vars

\* Inside a pass, after a promotion.
C3_Witness == hpc = "scan" /\ changed /\ Set255(edges) # Set255(strong)

\* C5 as claimed: with lowThreshold = 1, whatever highThreshold is, every
\* edge pixel has the maximal suppressed value.
C5_OnlyMaxIfLowIsOne ==
  (hpc = "done" /\ lowThreshold = PercentToFloat(RatioScale)) =>
    \A p \in Set255(edges) : suppressed.at[p] = MinMaxLoc(suppressed)

\* C5 amended: with lowThreshold = 1 no weak pixel is accepted, so every
\* edge pixel is strong (val >= high * M); with highThreshold = 1 as well,
\* every edge pixel has the maximal value.
C5_OnlyStrongIfLowIsOne ==
  (hpc = "done" /\ lowThreshold = PercentToFloat(RatioScale)) =>
    /\ Set255(edges) = SpecStrong
    /\ highThreshold = PercentToFloat(RatioScale) =>
         \A p \in Set255(edges) : suppressed.at[p] = MinMaxLoc(suppressed)

\* lowThreshold = highThreshold = 1 on a grid with values below the maximum
\* next to a maximal pixel.
C5_Witness ==
  /\ hpc = "done"
  /\ lowThreshold = PercentToFloat(RatioScale)
  /\ highThreshold = PercentToFloat(RatioScale)
  /\ \E p \in Set255(edges), q \in DOMAIN suppressed.at :
       /\ Adjacent8(p, q)
       /\ q \in Interior(suppressed.rows, suppressed.cols)
       /\ suppressed.at[q] > 0
       /\ suppressed.at[q] < suppressed.at[p]

----------------------------------------------------------------------------
(* Angles.                                                                 *)

RECURSIVE Gcd(_, _)
Gcd(a, b) == IF b = 0 THEN a ELSE Gcd(b, a % b)

\* 0.5 * std::atan2(numerator, denominator) stored in a float, for the
\* vectors of the tensors of InitGrad and of the pipeline's sources, by the
\* shortest integer vector of the same direction.
Atan2Half ==
  <<-1, -1>> :> -1066847204 @@
  <<-1, 0>> :> -1061752795 @@
  <<-1, 1>> :> -1053364187 @@
  <<0, -1>> :> 1070141403 @@
  <<0, 1>> :> 0 @@
  <<1, -1>> :> 1066847204 @@
  <<1, 0>> :> 1061752795 @@
  <<1, 1>> :> 1053364187 @@
  <<-2, -1>> :> -1065497684 @@
  <<-2, 1>> :> -1057863437 @@
  <<-1, -2>> :> -1068196724 @@
  <<-1, 2>> :> -1047356216 @@
  <<1, -2>> :> 1068196724 @@
  <<1, 2>> :> 1047356216 @@
  <<2, -1>> :> 1065497684 @@
  <<2, 1>> :> 1057863437 @@
  <<-3, -2>> :> -1066019267 @@
  <<-3, -1>> :> -1064451834 @@
  <<-3, 1>> :> -1059053755 @@
  <<-3, 2>> :> -1056675935 @@
  <<-2, -3>> :> -1067675141 @@
  <<-2, 3>> :> -1050052439 @@
  <<-1, -3>> :> -1068791883 @@
  <<-1, 3>> :> -1042594941 @@
  <<1, -3>> :> 1068791883 @@
  <<1, 3>> :> 1042594941 @@
  <<2, -3>> :> 1067675141 @@
  <<2, 3>> :> 1050052439 @@
  <<3, -2>> :> 1066019267 @@
  <<3, -1>> :> 1064451834 @@
  <<3, 1>> :> 1059053755 @@
  <<3, 2>> :> 1056675935 @@
  <<-4, -1>> :> -1063807824 @@
  <<-4, 1>> :> -1059697765 @@
  <<-3, -4>> :> -1067442364 @@
  <<-3, 4>> :> -1050983549 @@
  <<-1, -4>> :> -1069113888 @@
  <<-1, 4>> :> -1039850416 @@
  <<1, -4>> :> 1069113888 @@
  <<1, 4>> :> 1039850416 @@
  <<3, -4>> :> 1067442364 @@
  <<3, 4>> :> 1050983549 @@
  <<4, -1>> :> 1063807824 @@
  <<4, 1>> :> 1059697765 @@
  <<-5, -4>> :> -1066383074 @@
  <<-5, -2>> :> -1064944713 @@
  <<-5, -1>> :> -1063408668 @@
  <<-5, 1>> :> -1060096921 @@
  <<-5, 2>> :> -1058560876 @@
  <<-5, 4>> :> -1055220707 @@
  <<-3, -5>> :> -1067874719 @@
  <<-3, 5>> :> -1049254127 @@
  <<3, -5>> :> 1067874719 @@
  <<3, 5>> :> 1049254127 @@
  <<5, -4>> :> 1066383074 @@
  <<5, -2>> :> 1064944713 @@
  <<5, -1>> :> 1063408668 @@
  <<5, 1>> :> 1060096921 @@
  <<5, 2>> :> 1058560876 @@
  <<5, 4>> :> 1055220707 @@
  <<-6, -1>> :> -1063138162 @@
  <<-6, 1>> :> -1060367427 @@
  <<-1, -6>> :> -1069448719 @@
  <<-1, 6>> :> -1034493116 @@
  <<1, -6>> :> 1069448719 @@
  <<1, 6>> :> 1034493116 @@
  <<6, -1>> :> 1063138162 @@
  <<6, 1>> :> 1060367427 @@
  <<-7, -6>> :> -1066525200 @@
  <<-7, -4>> :> -1065730462 @@
  <<-7, -2>> :> -1064087341 @@
  <<-7, 2>> :> -1059418248 @@
  <<-7, 4>> :> -1057397881 @@
  <<-7, 6>> :> -1054652205 @@
  <<7, -6>> :> 1066525200 @@
  <<7, -4>> :> 1065730462 @@
  <<7, -2>> :> 1064087341 @@
  <<7, 2>> :> 1059418248 @@
  <<7, 4>> :> 1057397881 @@
  <<7, 6>> :> 1054652205 @@
  <<-7, -8>> :> -1067126411 @@
  <<-7, 8>> :> -1052247358 @@
  <<-5, -8>> :> -1067798468 @@
  <<-5, 8>> :> -1049559133 @@
  <<-3, -8>> :> -1068636609 @@
  <<-3, 8>> :> -1043837130 @@
  <<-1, -8>> :> -1069619820 @@
  <<-1, 8>> :> -1031712213 @@
  <<1, -8>> :> 1069619820 @@
  <<1, 8>> :> 1031712213 @@
  <<3, -8>> :> 1068636609 @@
  <<3, 8>> :> 1043837130 @@
  <<5, -8>> :> 1067798468 @@
  <<5, 8>> :> 1049559133 @@
  <<7, -8>> :> 1067126411 @@
  <<7, 8>> :> 1052247358 @@
  <<-9, -8>> :> -1066600764 @@
  <<-9, -4>> :> -1065261114 @@
  <<-9, -2>> :> -1063587123 @@
  <<-9, -1>> :> -1062681054 @@
  <<-9, 1>> :> -1060824535 @@
  <<-9, 2>> :> -1059918466 @@
  <<-9, 4>> :> -1058244475 @@
  <<-9, 8>> :> -1054349946 @@
  <<9, -8>> :> 1066600764 @@
  <<9, -4>> :> 1065261114 @@
  <<9, -2>> :> 1063587123 @@
  <<9, -1>> :> 1062681054 @@
  <<9, 1>> :> 1060824535 @@
  <<9, 2>> :> 1059918466 @@
  <<9, 4>> :> 1058244475 @@
  <<9, 8>> :> 1054349946 @@
  <<-11, -4>> :> -1064678498 @@
  <<-11, 4>> :> -1058827091 @@
  <<11, -4>> :> 1064678498 @@
  <<11, 4>> :> 1058827091 @@
  <<-13, -4>> :> -1064256785 @@
  <<-13, -2>> :> -1063033310 @@
  <<-13, 2>> :> -1060472279 @@
  <<-13, 4>> :> -1059248804 @@
  <<13, -4>> :> 1064256785 @@
  <<13, -2>> :> 1063033310 @@
  <<13, 2>> :> 1060472279 @@
  <<13, 4>> :> 1059248804 @@
  <<-15, -8>> :> -1065608035 @@
  <<-15, -4>> :> -1063938886 @@
  <<-15, 4>> :> -1059566703 @@
  <<-15, 8>> :> -1057642735 @@
  <<15, -8>> :> 1065608035 @@
  <<15, -4>> :> 1063938886 @@
  <<15, 4>> :> 1059566703 @@
  <<15, 8>> :> 1057642735 @@
  <<-21, -4>> :> -1063331711 @@
  <<-21, 4>> :> -1060173878 @@
  <<21, -4>> :> 1063331711 @@
  <<21, 4>> :> 1060173878 @@
  <<-985, -485112>> :> -1070132886 @@
  <<-985, 485112>> :> -981799271 @@
  <<985, -485112>> :> 1070132886 @@
  <<985, 485112>> :> 981799271 @@
  <<322883, -1323756>> :> 1069137946 @@
  <<322883, 1323756>> :> 1039465488 @@
  <<-1948771, -3075157>> :> -1067772287 @@
  <<-1948771, 3075157>> :> -1049663856 @@
  <<-4194305, 4194304>> :> -1053364189 @@
  <<-4684660, -4684659>> :> -1066847204 @@
  <<-4684660, 4684659>> :> -1053364189 @@
  <<-4756, -5654883>> :> -1070137875 @@
  <<-4756, 5654883>> :> -970750318 @@
  <<4756, -5654883>> :> 1070137875 @@
  <<4756, 5654883>> :> 970750318 @@
  <<-8388609, 8388608>> :> -1053364188 @@
  <<9742666, -15371687>> :> 1067772013 @@
  <<9742666, 15371687>> :> 1049664952 @@
  <<-4035545, -16542852>> :> -1069137824 @@
  <<-4035545, 16542852>> :> -1039467429 @@
  <<-16777216, 16777215>> :> -1053364188 @@
  <<-16777215, -16777216>> :> -1066847204 @@
  <<-4097, -16785408>> :> -1070140379 @@
  <<-4097, 16785408>> :> -956297218 @@
  <<4097, -16785408>> :> 1070140379 @@
  <<4097, 16785408>> :> 956297218 @@
  <<-16787458, -2049>> :> -1061753818 @@
  <<-16787458, 2049>> :> -1061751771 @@
  <<-8195, -33579012>> :> -1070140379 @@
  <<-8195, 33579012>> :> -956295170 @@
  <<8195, -33579012>> :> 1070140379 @@
  <<8195, 33579012>> :> 956295170

HalfAtan2(n, d) ==
  IF n = 0 /\ d >= 0 THEN Atan2Half[<<0, 1>>]
  ELSE LET g == Gcd(Abs(n), Abs(d)) IN Atan2Half[<<n \div g, d \div g>>]

\* float(CV_PI / 4.0)
PiOver4 == 1061752795

\* The largest angle 0.5 * std::atan2 returns, float(CV_PI / 2).
PiOver2 == 1070141403

\* CV_PI as a double: (PiHi * 2^26 + PiLo) * 2^-51.
PiHi == 105414357
PiLo == 4467992

Limb == 67108864

\* Long division by CV_PI, step i of 0 .. 14: the two-limb remainder
\* <<h, l>> is multiplied by 1 (step 0), 16 (steps 1 .. 13) or 4 (step 14)
\* and its quotient digit k is added to a (steps 0 .. 6) or b (steps
\* 7 .. 14).  h2 \div PiHi is the digit or one too many.
RECURSIVE DivPi(_, _, _, _, _)
DivPi(h, l, i, a, b) ==
  IF i > 14 THEN [a |-> a, b |-> b, sticky |-> IF h = 0 /\ l = 0 THEN 0 ELSE 1]
  ELSE LET s == IF i = 0 THEN 1 ELSE IF i = 14 THEN 4 ELSE 16
           h2 == s * h + ((s * l) \div Limb)
           l2 == (s * l) % Limb
           k0 == h2 \div PiHi
           p0 == k0 * PiHi + ((k0 * PiLo) \div Limb)
           fits == p0 < h2 \/ (p0 = h2 /\ (k0 * PiLo) % Limb <= l2)
           k == IF fits THEN k0 ELSE k0 - 1
           ph == k * PiHi + ((k * PiLo) \div Limb)
           pl == (k * PiLo) % Limb
           h3 == IF l2 >= pl THEN h2 - ph ELSE h2 - ph - 1
           l3 == IF l2 >= pl THEN l2 - pl ELSE l2 + Limb - pl
       IN IF i <= 6 THEN DivPi(h3, l3, i + 1, s * a + k, b)
          ELSE DivPi(h3, l3, i + 1, a, s * b + k)

\* The quotient digits a (0 .. 24) and b (25 .. 54) of the division, with
\* the sticky bit of the remainder, rounded to double and then to float;
\* e is the exponent of the leading digit.
RoundQuotient(neg, e, a, b, sticky) ==
  LET lead == a \div 16777216
      sig == IF lead = 1 THEN a \div 2 ELSE a
      low == IF lead = 1 THEN (a % 2) * 268435456 + (b \div 4) ELSE b \div 2
      guard == IF lead = 1 THEN (b \div 2) % 2 ELSE b % 2
      rest == IF lead = 1 THEN (IF b % 2 = 1 THEN 1 ELSE sticky) ELSE sticky
      up == guard = 1 /\ (rest = 1 \/ low % 2 = 1)
      low53 == IF up THEN low + 1 ELSE low
      m == sig * 64 + (low53 \div 16777216) * 2
           + (IF low53 % 16777216 = 0 THEN 0 ELSE 1)
  IN RoundPack(neg, m, e + lead)

\* 45 * the significand of the angle, shifted to 30 bits by t, divided by
\* the significand of CV_PI.
DivideByPi(neg, e, n2) ==
  LET d == DivPi(n2 \div 8, (n2 % 8) * 8388608, 0, 0, 0)
  IN RoundQuotient(neg, e, d.a, d.b, d.sticky)

ScaledDegrees(angle, n1, t) == DivideByPi(angle < 0, Expo(angle) - t, n1 * Pow2(t))

\* angle * 180.0 / CV_PI stored in a float, line 213: the product is exact
\* in double, the quotient is rounded to double and then to float.
Degrees(angle) ==
  IF angle = 0 THEN 0
  ELSE ScaledDegrees(angle, 45 * Mant(angle), 30 - BitLen(45 * Mant(angle)))

\* The angles of applySuppression's tests: 22.5, 67.5, 112.5, 157.5, 180.0.
Deg22_5 == 1102315520
Deg67_5 == 1116143616
Deg112_5 == 1122041856
Deg157_5 == 1126006784
Deg180 == 1127481344

\* The directions the suppression is run on: the floats 0.5 * std::atan2
\* gives along the axes and the diagonals (the multiples of pi / 8 up to
\* pi / 2), the floats next to them, and their negatives.
AnchorAngles == {HalfAtan2(n, d) : n \in {0, 1}, d \in -1 .. 1}

Directions ==
  LET near == {a + j : a \in AnchorAngles, j \in (0 - DirMax) .. DirMax}
      pos == {angle \in near : 0 <= angle /\ angle <= PiOver2}
  IN pos \cup {0 - angle : angle \in pos}

----------------------------------------------------------------------------
(* The gradient estimator and the resolver (edge_detector.cpp:46-145).     *)

\* The values a float holds without rounding: integers below 2^24.
FloatExact == 16777216

\* The spacing of the floats at the magnitude n.
RECURSIVE Ulp(_)
Ulp(n) == IF n < FloatExact THEN 1 ELSE 2 * Ulp(n \div 2)

\* An integer result stored in a float: rounded to the nearest float, a tie
\* to the one with the even significand.
Fl(n) ==
  LET m == Abs(n)
      q == Ulp(m)
      lo == (m \div q) * q
      r == m - lo
      up == IF 2 * r > q THEN TRUE
            ELSE IF 2 * r < q THEN FALSE
            ELSE (lo \div q) % 2 = 1
      v == IF up THEN lo + q ELSE lo
  IN IF n < 0 THEN 0 - v ELSE v

\* computeCoefficientsGray, lines 54-58, at one pixel.
ComputeCoefficientsGray(dRdx, dRdy) ==
  [gxx |-> Fl(dRdx * dRdx), gyy |-> Fl(dRdy * dRdy), gxy |-> Fl(dRdx * dRdy)]

\* computeCoefficientsColor, lines 84-88, at one pixel: gX and gY are the
\* derivatives of the three channels.  std::pow is computed in double, so
\* a square is added unrounded; a product is a float before it is added.
RECURSIVE SumSquares(_, _)
SumSquares(f, i) ==
  IF i = 0 THEN 0 ELSE Fl(SumSquares(f, i - 1) + f[i] * f[i])

RECURSIVE SumProducts(_, _, _)
SumProducts(f, g, i) ==
  IF i = 0 THEN 0 ELSE Fl(SumProducts(f, g, i - 1) + Fl(f[i] * g[i]))

ComputeCoefficientsColor(gX, gY) ==
  [gxx |-> SumSquares(gX, 3), gyy |-> SumSquares(gY, 3), gxy |-> SumProducts(gX, gY, 3)]

\* calculateGradientDirection, lines 139-142, at one pixel.
CalculateGradientDirectionNoFallback(gxx, gyy, gxy) ==
  LET numerator == 2 * gxy
      denominator == Fl(gxx - gyy)
  IN HalfAtan2(numerator, denominator)

CalculateGradientDirection(gxx, gyy, gxy) ==
  LET numerator == 2 * gxy
      denominator == Fl(gxx - gyy)
  IN IF denominator < 0 THEN PiOver4 ELSE HalfAtan2(numerator, denominator)

\* std::cos(2 * theta) and std::sin(2 * theta), lines 112-113, for the
\* angles the resolver computes from the tensors of InitGrad and of the
\* pipeline's sources: <<cos2theta, sin2theta>> as the C library returns
\* them.  2 * theta is exact in float.
Trig ==
  0 :> <<1065353216, 0>> @@
  -956295170 :> <<1065353216, -964683778>> @@
  956295170 :> <<1065353216, 964683778>> @@
  -956297218 :> <<1065353216, -964685826>> @@
  956297218 :> <<1065353216, 964685826>> @@
  -970750318 :> <<1065353210, -979138924>> @@
  970750318 :> <<1065353210, 979138924>> @@
  -981799271 :> <<1065353181, -990187873>> @@
  981799271 :> <<1065353181, 990187873>> @@
  -1031712213 :> <<1065223660, -1040057836>> @@
  1031712213 :> <<1065223660, 1040057836>> @@
  -1034493116 :> <<1065124944, -1042831413>> @@
  1034493116 :> <<1065124944, 1042831413>> @@
  1039465488 :> <<1064875362, 1047701374>> @@
  -1039467429 :> <<1064875247, -1047703260>> @@
  -1039850416 :> <<1064852290, -1048075075>> @@
  1039850416 :> <<1064852290, 1048075075>> @@
  -1042594941 :> <<1064492265, -1050798235>> @@
  1042594941 :> <<1064492265, 1050798235>> @@
  -1043837130 :> <<1064284997, -1051969140>> @@
  1043837130 :> <<1064284997, 1051969140>> @@
  -1047356216 :> <<1063581998, -1055193390>> @@
  1047356216 :> <<1063581998, 1055193390>> @@
  -1049254127 :> <<1062962344, -1057207807>> @@
  1049254127 :> <<1062962344, 1057207807>> @@
  -1049559133 :> <<1062803051, -1057467906>> @@
  1049559133 :> <<1062803051, 1057467906>> @@
  -1049663856 :> <<1062747271, -1057556537>> @@
  1049664952 :> <<1062746684, 1057557463>> @@
  -1050052439 :> <<1062535487, -1057882325>> @@
  1050052439 :> <<1062535487, 1057882325>> @@
  -1050983549 :> <<1061997773, -1058642330>> @@
  1050983549 :> <<1061997773, 1058642330>> @@
  -1052247358 :> <<1061202142, -1059623874>> @@
  1052247358 :> <<1061202142, 1059623874>> @@
  -1053364187 :> <<1060439283, -1060439283>> @@
  1053364187 :> <<1060439283, 1060439283>> @@
  -1053364188 :> <<1060439282, -1060439284>> @@
  -1053364189 :> <<1060439281, -1060439285>> @@
  -1054349946 :> <<1059722175, -1061115448>> @@
  1054349946 :> <<1059722175, 1061115448>> @@
  -1054652205 :> <<1059494468, -1061314212>> @@
  1054652205 :> <<1059494468, 1061314212>> @@
  -1055220707 :> <<1059056644, -1061676805>> @@
  1055220707 :> <<1059056644, 1061676805>> @@
  -1056675935 :> <<1057882325, -1062535488>> @@
  1056675935 :> <<1057882325, 1062535488>> @@
  -1057397881 :> <<1056835054, -1063142702>> @@
  1057397881 :> <<1056835054, 1063142702>> @@
  -1057642735 :> <<1055977712, -1063379426>> @@
  1057642735 :> <<1055977712, 1063379426>> @@
  -1057863437 :> <<1055193389, -1063581999>> @@
  1057863437 :> <<1055193389, 1063581999>> @@
  -1058244475 :> <<1053815136, -1063907214>> @@
  1058244475 :> <<1053815136, 1063907214>> @@
  -1058560876 :> <<1052649194, -1064153254>> @@
  1058560876 :> <<1052649194, 1064153254>> @@
  -1058827091 :> <<1051654388, -1064343117>> @@
  1058827091 :> <<1051654388, 1064343117>> @@
  -1059053755 :> <<1050798236, -1064492264>> @@
  1059053755 :> <<1050798236, 1064492264>> @@
  -1059248804 :> <<1050055276, -1064611311>> @@
  1059248804 :> <<1050055276, 1064611311>> @@
  -1059418248 :> <<1049405503, -1064707695>> @@
  1059418248 :> <<1049405503, 1064707695>> @@
  -1059566703 :> <<1048833117, -1064786732>> @@
  1059566703 :> <<1048833117, 1064786732>> @@
  -1059697765 :> <<1048075072, -1064852290>> @@
  1059697765 :> <<1048075072, 1064852290>> @@
  -1059918466 :> <<1046356745, -1064953701>> @@
  1059918466 :> <<1046356745, 1064953701>> @@
  -1060096921 :> <<1044959912, -1065027414>> @@
  1060096921 :> <<1044959912, 1065027414>> @@
  -1060173878 :> <<1044355667, -1065056906>> @@
  1060173878 :> <<1044355667, 1065056906>> @@
  -1060367427 :> <<1042831414, -1065124944>> @@
  1060367427 :> <<1042831414, 1065124944>> @@
  -1060472279 :> <<1042003171, -1065158125>> @@
  1060472279 :> <<1042003171, 1065158125>> @@
  -1060824535 :> <<1038232038, -1065250602>> @@
  1060824535 :> <<1038232038, 1065250602>> @@
  -1061751771 :> <<956295304, -1065353216>> @@
  -1061752795 :> <<-859553070, -1065353216>> @@
  1061752795 :> <<-859553070, 1065353216>>

Cos2Theta(theta) == Trig[theta][1]

Sin2Theta(theta) == Trig[theta][2]

\* Lines 116-118, the float expression under the square root before it is
\* halved: ((gxx + gyy) + (gxx - gyy) * cos2theta) + 2 * gxy * sin2theta.
Radicand(gxx, gyy, gxy, cos2theta, sin2theta) ==
  FAdd(FAdd(IntToFloat(Fl(gxx + gyy)), FMul(IntToFloat(Fl(gxx - gyy)), cos2theta)),
       FMul(IntToFloat(2 * gxy), sin2theta))

\* calculateGradientMagnitude, lines 108-119, at one pixel: the locals and
\* the magnitude stored (value); std::sqrt of a negative number is NaN.
CalculateGradientMagnitude(gxx, gyy, gxy) ==
  LET numerator == 2 * gxy
      denominator == Fl(gxx - gyy)
      theta == IF denominator < 0 THEN PiOver4 ELSE HalfAtan2(numerator, denominator)
      cos2theta == Cos2Theta(theta)
      sin2theta == Sin2Theta(theta)
      radicand == Radicand(gxx, gyy, gxy, cos2theta, sin2theta)
  IN [theta |-> theta, cos2theta |-> cos2theta, sin2theta |-> sin2theta,
      radicand |-> radicand, value |-> SqrtHalf(radicand)]

\* The Sobel derivatives at a pixel: one pair for a grayscale image, three
\* for a colour image.  Both kernels weigh the four corners of the 3 x 3
\* window by 1 or -1 and the rest by an even number or 0, so dx and dy of a
\* channel are both even or both odd.  The small ones and their products
\* are exact in float.  The large pairs are what cv::Sobel gives at the
\* centre of the 16-bit images <<0, 8195, 0>>, <<0, 0, 8194>>, <<0, 0, 0>>
\* (16388, -16390) and <<0, 985, 0>>, <<0, 0, 2378>>, <<0, 0, 0>>
\* (4756, -1970); their squares and products are rounded.
SmallDerivs == (0 - MaxDeriv) .. MaxDeriv

LargeDerivs == {16388, -16390, 4756, -1970}

Derivs(colour) == IF colour THEN SmallDerivs ELSE SmallDerivs \cup LargeDerivs

SameParity(gX, gY) == \A i \in DOMAIN gX : (gX[i] - gY[i]) % 2 = 0

InitGrad ==
  /\ isColor \in BOOLEAN
  /\ gradientX \in [1 .. (IF isColor THEN 3 ELSE 1) -> Derivs(isColor)]
  /\ gradientY \in [1 .. (IF isColor THEN 3 ELSE 1) -> Derivs(isColor)]
  /\ SameParity(gradientX, gradientY)
  /\ tensor = <<>>
  /\ magnitude = <<>>
  /\ direction = <<>>
  /\ gpc = "coefficients"
  /\ IdleHyst
  /\ IdleNms
  /\ IdlePipe
  /\ IdleUi

\* computeGrayGradients line 158, computeColorGradients line 182.
ComputeCoefficients ==
  /\ gpc = "coefficients"
  /\ tensor' = IF isColor
               THEN ComputeCoefficientsColor(gradientX, gradientY)
               ELSE ComputeCoefficientsGray(gradientX[1], gradientY[1])
  /\ gpc' = "magnitude"
  /\ UNCHANGED <<isColor, gradientX, gradientY, magnitude, direction>>
  /\ UNCHANGED <<hystVars, nmsVars, pipeVars, uiVars>>

\* Lines 161 and 185.
ResolveMagnitude ==
  /\ gpc = "magnitude"
  /\ magnitude' = CalculateGradientMagnitude(tensor.gxx, tensor.gyy, tensor.gxy)
  /\ gpc' = "direction"
  /\ UNCHANGED <<isColor, gradientX, gradientY, tensor, direction>>
  /\ UNCHANGED <<hystVars, nmsVars, pipeVars, uiVars>>

\* Lines 162 and 186.
ResolveDirection ==
  /\ gpc = "direction"
  /\ direction' = CalculateGradientDirection(tensor.gxx, tensor.gyy, tensor.gxy)
  /\ gpc' = "done"
  /\ UNCHANGED <<isColor, gradientX, gradientY, tensor, magnitude>>
  /\ UNCHANGED <<hystVars, nmsVars, pipeVars, uiVars>>

NextGrad == ComputeCoefficients \/ ResolveMagnitude \/ ResolveDirection

SpecGrad == InitGrad /\ [][NextGrad]_vars

----------------------------------------------------------------------------
(* EdgeDetector::applySuppression (edge_detector.cpp:207-241).             *)

\* Line 208, the matrix the loops write into.
InitialSuppressedAsClone(m) == m

InitialSuppressed(m) == Zeros(m.rows, m.cols)

\* Lines 213-214: the angle in degrees, 180.0 added to a negative one; the
\* sum is rounded to float.
AddHalfTurn(angleDeg) ==
  IF FLt(angleDeg, 0) THEN FAdd(angleDeg, Deg180) ELSE angleDeg

AngleDegNotNormalised(angle) == Degrees(angle)

AngleDeg(angle) == AddHalfTurn(Degrees(angle))

\* angleDeg for the sample directions, computed once.
SampleAngleDeg == [angle \in Directions |-> AngleDeg(angle)]

AngleDegOf(angle) ==
  IF angle \in Directions THEN SampleAngleDeg[angle] ELSE AngleDeg(angle)

\* Line 216, float q = 255.0, r = 255.0.
Placeholder == IntToFloat(255)

\* Lines 218-233: the two neighbours the pixel is compared with, and the
\* branch of the if chain that chose them (0 when none did).
SectorNeighbours(angleDeg, mag, y, x) ==
  IF (FGe(angleDeg, 0) /\ FLt(angleDeg, Deg22_5))
        \/ (FGe(angleDeg, Deg157_5) /\ FGe(Deg180, angleDeg))
     THEN [q |-> mag[<<y, x + 1>>], r |-> mag[<<y, x - 1>>], branch |-> 1]
     ELSE IF FGe(angleDeg, Deg22_5) /\ FLt(angleDeg, Deg67_5)
     THEN [q |-> mag[<<y + 1, x - 1>>], r |-> mag[<<y - 1, x + 1>>], branch |-> 2]
     ELSE IF FGe(angleDeg, Deg67_5) /\ FLt(angleDeg, Deg112_5)
     THEN [q |-> mag[<<y + 1, x>>], r |-> mag[<<y - 1, x>>], branch |-> 3]
     ELSE IF FGe(angleDeg, Deg112_5) /\ FLt(angleDeg, Deg157_5)
     THEN [q |-> mag[<<y - 1, x - 1>>], r |-> mag[<<y + 1, x + 1>>], branch |-> 4]
     ELSE [q |-> Placeholder, r |-> Placeholder, branch |-> 0]

SelectNeighbours(gr, y, x) ==
  SectorNeighbours(AngleDegOf(gr.direction.at[<<y, x>>]), gr.magnitude.at, y, x)

\* Lines 235-237: a comparison with NaN is false.
Keeps(m, q, r) == FGe(m, q) /\ FGe(m, r)

SuppressAt(gr, y, x) ==
  LET n == SelectNeighbours(gr, y, x)
      m == gr.magnitude.at[<<y, x>>]
  IN IF Keeps(m, n.q, n.r) THEN m ELSE 0

\* Line 208 and the entry of the loops of lines 210-211.
StartSuppression ==
  /\ npc = "start"
  /\ nmsSuppressed' = InitialSuppressed(gradients.magnitude)
  /\ ny' = Border
  /\ nx' = Border
  /\ npc' = IF HasInterior(gradients.magnitude) THEN "pixel" ELSE "done"
  /\ UNCHANGED <<gradients, nq, nr, nbranch>>
  /\ UNCHANGED <<hystVars, gradVars, pipeVars, uiVars>>

\* One iteration of the inner loop, lines 212-237, and the loop increments.
SuppressPixel ==
  /\ npc = "pixel"
  /\ LET n == SelectNeighbours(gradients, ny, nx)
     IN /\ nq' = n.q
        /\ nr' = n.r
        /\ nbranch' = n.branch
  /\ nmsSuppressed' = [nmsSuppressed EXCEPT !.at[<<ny, nx>>] = SuppressAt(gradients, ny, nx)]
  /\ IF nx + 1 < gradients.magnitude.cols - Border
     THEN nx' = nx + 1 /\ ny' = ny /\ npc' = "pixel"
     ELSE IF ny + 1 < gradients.magnitude.rows - Border
          THEN nx' = Border /\ ny' = ny + 1 /\ npc' = "pixel"
          ELSE nx' = Border /\ ny' = Border /\ npc' = "done"
  /\ UNCHANGED gradients
  /\ UNCHANGED <<hystVars, gradVars, pipeVars, uiVars>>

\* The inputs the suppression is started on: grids of every size up to
\* NmsDim, one magnitude everywhere but for at most two pixels, and one
\* direction everywhere, one of Directions.
\* The magnitudes of two pixels may be NaN, which calculateGradientMagnitude
\* stores where the expression under its square root is negative.
NmsMagSamples == MagSamples \cup {NaN}

NmsMagnitudes(rows, cols) ==
  LET P == Pix(rows, cols)
      Two == {k \in P \X NmsMagSamples \X P \X NmsMagSamples :
                \/ k[1][1] < k[3][1]
                \/ k[1][1] = k[3][1] /\ k[1][2] < k[3][2]
                \/ k[1] = k[3] /\ k[2] = k[4]}
  IN {[rows |-> rows, cols |-> cols,
       at |-> [p \in P |-> IF p = k[1] THEN k[2]
                           ELSE IF p = k[3] THEN k[4] ELSE b]] :
        b \in MagSamples, k \in Two}

UniformDirection(rows, cols, v) ==
  [rows |-> rows, cols |-> cols, at |-> [p \in Pix(rows, cols) |-> v]]

InitNms ==
  /\ \E rows \in 1 .. NmsDim, cols \in 1 .. NmsDim :
       \E m \in NmsMagnitudes(rows, cols), v \in Directions :
         gradients = [magnitude |-> m, direction |-> UniformDirection(rows, cols, v)]
  /\ nmsSuppressed = Zeros(0, 0)
  /\ ny = 0
  /\ nx = 0
  /\ nq = 0
  /\ nr = 0
  /\ nbranch = 0
  /\ npc = "start"
  /\ IdleHyst
  /\ IdleGrad
  /\ IdlePipe
  /\ IdleUi

NextNms == StartSuppression \/ SuppressPixel

SpecNMS == InitNms /\ [][NextNms]_vars

----------------------------------------------------------------------------
(* The suppression: what the specification says of it.                     *)

\* The four sectors of the normalised angle a, in degrees.
InSector(k, a) ==
  CASE k = 1 -> (FGe(a, 0) /\ FLt(a, Deg22_5)) \/ (FGe(a, Deg157_5) /\ FGe(Deg180, a))
    [] k = 2 -> FGe(a, Deg22_5) /\ FLt(a, Deg67_5)
    [] k = 3 -> FGe(a, Deg67_5) /\ FLt(a, Deg112_5)
    [] k = 4 -> FGe(a, Deg112_5) /\ FLt(a, Deg157_5)

\* The neighbour pair of a sector, as offsets <<dy, dx>>.
SectorPair(k) ==
  CASE k = 1 -> <<<<0, 1>>, <<0, -1>>>>
    [] k = 2 -> <<<<1, -1>>, <<-1, 1>>>>
    [] k = 3 -> <<<<1, 0>>, <<-1, 0>>>>
    [] k = 4 -> <<<<-1, -1>>, <<1, 1>>>>

\* The angle of a direction in degrees, in [0, 180]: 180 is added to a
\* negative one, in float.
IntoHalfTurn(a) == IF FLt(a, 0) THEN FAdd(a, Deg180) ELSE a

NormalisedDegrees(theta) == IntoHalfTurn(Degrees(theta))

SampleNormalised == [theta \in Directions |-> NormalisedDegrees(theta)]

Normalised(theta) ==
  IF theta \in Directions THEN SampleNormalised[theta] ELSE NormalisedDegrees(theta)

\* C6: at every interior pixel the normalised angle lies in exactly one of
\* the four sectors, the neighbours compared are that sector's pair and
\* never the placeholders, and the output is the magnitude if it is >= both
\* neighbours (ties survive) and 0 otherwise.
C6_SectorAndSurvival ==
  [][npc = "pixel" =>
       LET p == <<ny, nx>>
           mag == gradients.magnitude.at
           a == Normalised(gradients.direction.at[p])
           S == {k \in 1 .. 4 : InSector(k, a)}
       IN /\ Cardinality(S) = 1
          /\ \A k \in S :
               LET pq == <<p[1] + SectorPair(k)[1][1], p[2] + SectorPair(k)[1][2]>>
                   pr == <<p[1] + SectorPair(k)[2][1], p[2] + SectorPair(k)[2][2]>>
               IN /\ nbranch' = k
                  /\ nq' = mag[pq]
                  /\ nr' = mag[pr]
                  /\ nmsSuppressed'.at[p] =
                       IF FGe(mag[p], mag[pq]) /\ FGe(mag[p], mag[pr])
                       THEN mag[p] ELSE 0]_vars

\* A pixel whose direction is below -22.5 degrees and whose angle, 180.0
\* added, is rounded to 157.5: it is compared along the row, ties with one
\* neighbour and survives.
C6_Witness ==
  /\ npc = "done"
  /\ gradients.magnitude.rows = 3
  /\ gradients.magnitude.cols = 3
  /\ gradients.direction.at[<<1, 1>>] < 0
  /\ nbranch = 1
  /\ Normalised(gradients.direction.at[<<1, 1>>]) = Deg157_5
  /\ FLt(Degrees(gradients.direction.at[<<1, 1>>]), 0 - Deg22_5)
  /\ nq = gradients.magnitude.at[<<1, 1>>]
  /\ FLt(nr, nq)
  /\ FLt(0, nq)
  /\ nmsSuppressed.at[<<1, 1>>] = gradients.magnitude.at[<<1, 1>>]

\* C7: the output has the dimensions of the input and its outermost ring
\* is 0, whatever the magnitudes and directions there, also for grids
\* smaller than 3 x 3.
C7_BorderRingZero ==
  npc \in {"pixel", "done"} =>
    /\ nmsSuppressed.rows = gradients.magnitude.rows
    /\ nmsSuppressed.cols = gradients.magnitude.cols
    /\ DOMAIN nmsSuppressed.at = DOMAIN gradients.magnitude.at
    /\ \A p \in BorderRing(nmsSuppressed.rows, nmsSuppressed.cols) :
         nmsSuppressed.at[p] = 0

\* A 3 x 3 grid with a nonzero magnitude on the ring whose centre survives.
C7_Witness ==
  /\ npc = "done"
  /\ gradients.magnitude.rows = 3
  /\ gradients.magnitude.cols = 3
  /\ gradients.magnitude.at[<<0, 0>>] > 0
  /\ FLt(0, nmsSuppressed.at[<<1, 1>>])

----------------------------------------------------------------------------
(* The resolver: what the specification says of it.                        *)

\* C9: at every pixel the expression under the square root of
\* calculateGradientMagnitude is >= 0, in either branch, so the magnitude
\* is a number and is >= 0.
C9_RadicandNonNegative ==
  gpc \in {"direction", "done"} =>
    /\ FGe(magnitude.radicand, 0)
    /\ FGe(magnitude.value, 0)

\* gxx + gyy + 2 * gxy in float, with the float gxx + gyy as it is or
\* rounded up to the next float: at theta = pi / 4 the float cosine is
\* -4.3711388e-08 and not 0, and the term (gxx - gyy) * cos2theta, which is
\* below the spacing of the floats at gxx + gyy, is lost or rounds the sum
\* up by one float.
ClosedForm(t) ==
  LET sum == IntToFloat(Fl(t.gxx + t.gyy))
  IN {FAdd(s, IntToFloat(2 * t.gxy)) : s \in {sum, sum + 1}}

\* C8: a pixel with gyy > gxx gets the direction pi / 4, which the
\* suppression reads as the anti-diagonal sector; its magnitude is computed
\* at theta = pi / 4 and not at the angle of atan2: the expression under the
\* square root is the one of lines 116-118 at the cosine and sine of
\* 2 * float(pi / 4), which is the closed form gxx + gyy + 2 * gxy up to the
\* rounding of gxx + gyy, and the magnitude is the square root of its half;
\* both functions take the same branch at every pixel.
C8_FallbackBranch ==
  gpc = "done" =>
    /\ magnitude.theta = direction
    /\ tensor.gyy > tensor.gxx =>
         /\ direction = PiOver4
         /\ FGe(AngleDeg(direction), Deg22_5) /\ FLt(AngleDeg(direction), Deg67_5)
         /\ magnitude.theta # HalfAtan2(2 * tensor.gxy, Fl(tensor.gxx - tensor.gyy))
         /\ magnitude.radicand =
              Radicand(tensor.gxx, tensor.gyy, tensor.gxy,
                       Cos2Theta(PiOver4), Sin2Theta(PiOver4))
         /\ magnitude.radicand \in ClosedForm(tensor)
         /\ magnitude.value = SqrtHalf(magnitude.radicand)

\* A colour pixel with gyy > gxx and gxy < 0.
C8_Witness ==
  /\ gpc = "done"
  /\ isColor
  /\ tensor.gyy > tensor.gxx
  /\ tensor.gxy < 0
  /\ direction = PiOver4
  /\ FLt(0, magnitude.value)

----------------------------------------------------------------------------
(* EdgeDetector::process (edge_detector.cpp:14-32, 152-198, 309-314).      *)

\* A sigma is held in tenths, as on its trackbar (sigma = tenths / 10.0).
\* 6 * sigma + 1 in double, truncated to int: for 0 .. 50 tenths the double
\* is far enough from an integer, or is one, for the truncation to be exact.
TruncSixSigmaPlusOne(s) == (6 * s + 10) \div 10

\* x | 1
OrOne(x) == IF x % 2 = 0 THEN x + 1 ELSE x

Max(a, b) == IF a >= b THEN a ELSE b

\* calculateGaussianKernelSize, line 15.
CalculateGaussianKernelSizeNoOrOne(s) == Max(3, TruncSixSigmaPlusOne(s))

CalculateGaussianKernelSize(s) == Max(3, OrOne(TruncSixSigmaPlusOne(s)))

\* The sigmas (0.1) whose 3 x 3 kernel is 0, 1, 0: the other weights,
\* exp(-50) of the centre's, round to nothing.
DeltaSigmas == {1}

IsFlat(img) == \A p, q \in DOMAIN img.at : img.at[p] = img.at[q]

\* cv::GaussianBlur, line 27, on the sources of PipeParams: the kernel is
\* normalised, so a flat image is left as it is, and so is every image
\* under the kernel 0, 1, 0.
GaussianBlur(source, ksize, s) == source

\* applyGaussianBlur, lines 24-32; convertTo keeps the values.
ApplyGaussianBlur(source, s) ==
  LET kernelSz == CalculateGaussianKernelSize(s)
  IN GaussianBlur(source, kernelSz, s)

\* cv::BORDER_DEFAULT of cv::Sobel: index i of 0 .. n - 1 reflected about
\* the first and the last element.
Reflect101(i, n) ==
  IF n = 1 THEN 0
  ELSE IF i < 0 THEN 0 - i ELSE IF i > n - 1 THEN 2 * (n - 1) - i ELSE i

\* cv::Sobel(image, gradient, CV_32F, 1, 0, 3) and (.., 0, 1, 3) at a pixel
\* of channel ch, lines 154-155 and 178-179.
SobelX(img, ch, y, x) ==
  LET v(j, i) == img.at[<<Reflect101(y + j, img.rows), Reflect101(x + i, img.cols)>>][ch]
  IN (v(-1, 1) + 2 * v(0, 1) + v(1, 1)) - (v(-1, -1) + 2 * v(0, -1) + v(1, -1))

SobelY(img, ch, y, x) ==
  LET v(j, i) == img.at[<<Reflect101(y + j, img.rows), Reflect101(x + i, img.cols)>>][ch]
  IN (v(1, -1) + 2 * v(1, 0) + v(1, 1)) - (v(-1, -1) + 2 * v(-1, 0) + v(-1, 1))

\* computeGrayGradients and computeColorGradients, lines 158 and 182: the
\* structure tensor at a pixel.  A pixel is the sequence of its channels.
TensorAt(img, colour, y, x) ==
  IF colour
  THEN ComputeCoefficientsColor([i \in 1 .. 3 |-> SobelX(img, i, y, x)],
                                [i \in 1 .. 3 |-> SobelY(img, i, y, x)])
  ELSE ComputeCoefficientsGray(SobelX(img, 1, y, x), SobelY(img, 1, y, x))

\* computeGradients, lines 196-198, with lines 161-162 and 185-186.
ComputeGradients(img, colour) ==
  LET P == Pix(img.rows, img.cols)
      t == [p \in P |-> TensorAt(img, colour, p[1], p[2])]
  IN [magnitude |->
        [rows |-> img.rows, cols |-> img.cols,
         at |-> [p \in P |-> CalculateGradientMagnitude(t[p].gxx, t[p].gyy, t[p].gxy).value]],
      direction |->
        [rows |-> img.rows, cols |-> img.cols,
         at |-> [p \in P |-> CalculateGradientDirection(t[p].gxx, t[p].gyy, t[p].gxy)]]]

\* Line 310.
ProcessBlur ==
  /\ ppc = "blur"
  /\ blurred' = ApplyGaussianBlur(params.source, params.sigma)
  /\ ppc' = "gradients"
  /\ UNCHANGED params
  /\ UNCHANGED <<hystVars, nmsVars, gradVars, uiVars>>

\* Line 311, and the call of line 312.
ProcessGradients ==
  /\ ppc = "gradients"
  /\ gradients' = ComputeGradients(blurred, params.isColor)
  /\ npc' = "start"
  /\ ppc' = "suppression"
  /\ UNCHANGED <<nmsSuppressed, ny, nx, nq, nr, nbranch>>
  /\ UNCHANGED <<params, blurred>>
  /\ UNCHANGED <<hystVars, gradVars, uiVars>>

\* Line 313, the call of applyThresholding on what applySuppression returned.
ProcessThresholding ==
  /\ ppc = "suppression"
  /\ npc = "done"
  /\ suppressed' = nmsSuppressed
  /\ lowThreshold' = params.lowThreshold
  /\ highThreshold' = params.highThreshold
  /\ strong' = Zeros(nmsSuppressed.rows, nmsSuppressed.cols)
  /\ weak' = Zeros(nmsSuppressed.rows, nmsSuppressed.cols)
  /\ edges' = Zeros(nmsSuppressed.rows, nmsSuppressed.cols)
  /\ changed' = FALSE
  /\ hy' = Border
  /\ hx' = Border
  /\ passes' = 0
  /\ hpc' = "classify"
  /\ ppc' = "thresholding"
  /\ UNCHANGED <<params, blurred>>
  /\ UNCHANGED <<nmsVars, gradVars, uiVars>>

\* The 8-bit sources: flat images, and images of two flat halves, side by
\* side or one above the other (in one channel of a colour image).  Their
\* gradients lie along an axis.
PixelSamples == {0, 1, 2}

Halves(rows, cols) ==
  {[p \in Pix(rows, cols) |-> IF p[2] < k THEN a ELSE b] :
     k \in 1 .. cols - 1, a \in PixelSamples, b \in PixelSamples}
  \cup
  {[p \in Pix(rows, cols) |-> IF p[1] < k THEN a ELSE b] :
     k \in 1 .. rows - 1, a \in PixelSamples, b \in PixelSamples}

GraySources(rows, cols) ==
  {[rows |-> rows, cols |-> cols, at |-> [p \in Pix(rows, cols) |-> <<f[p]>>]] :
     f \in Halves(rows, cols)}

ColourSources(rows, cols) ==
  {[rows |-> rows, cols |-> cols,
    at |-> [p \in Pix(rows, cols) |-> [i \in 1 .. 3 |-> IF i = c THEN f[p] ELSE o[i]]]] :
     f \in Halves(rows, cols), c \in 1 .. 3, o \in [1 .. 3 -> {0, 2}]}

SigmaSamples == DeltaSigmas \cup {14}

\* The sigmas a source is blurred with: any for a flat image, DeltaSigmas
\* otherwise.
SigmasOf(src) == IF IsFlat(src) THEN SigmaSamples ELSE DeltaSigmas

PipeSources(rows, cols) ==
  {<<src, FALSE>> : src \in GraySources(rows, cols)}
  \cup {<<src, TRUE>> : src \in ColourSources(rows, cols)}

PipeParams(rows, cols) ==
  UNION {{[source |-> sc[1], sigma |-> s, lowThreshold |-> lo, highThreshold |-> hi,
           isColor |-> sc[2]] :
            s \in SigmasOf(sc[1]), lo \in {PercentToFloat(r) : r \in RatioSamples},
            hi \in {PercentToFloat(r) : r \in RatioSamples}} :
         sc \in PipeSources(rows, cols)}

InitPipe ==
  /\ \E pr \in PipeParams(PipeRows, PipeCols) : params = pr
  /\ blurred = Zeros(0, 0)
  /\ ppc = "blur"
  /\ IdleHyst
  /\ IdleNms
  /\ IdleGrad
  /\ IdleUi

NextPipe ==
  \/ ProcessBlur
  \/ ProcessGradients
  \/ StartSuppression
  \/ SuppressPixel
  \/ ProcessThresholding
  \/ Classify
  \/ ScanPixel
  \/ EndPass

SpecPipe == InitPipe /\ [][NextPipe]_vars

\* C4: on a flat image, grayscale or colour, and for any ratios, the
\* gradients are zero, the suppressed magnitude is zero and the mask process
\* returns has no edge pixel.
C4_FlatImageNoEdges ==
  (ppc = "thresholding" /\ hpc = "done" /\ IsFlat(params.source)) =>
    /\ \A p \in DOMAIN gradients.magnitude.at : gradients.magnitude.at[p] = 0
    /\ \A p \in DOMAIN nmsSuppressed.at : nmsSuppressed.at[p] = 0
    /\ Set255(edges) = {}

\* The pixels the specification discards: val < low * M.
SpecDiscarded ==
  LET lowM == FMul(lowThreshold, MinMaxLoc(suppressed))
  IN {p \in DOMAIN suppressed.at : FLt(suppressed.at[p], lowM)}

\* C11: for 0 <= low <= high <= 1, in every state of the hysteresis loop and
\* in the returned mask, an edge pixel was classified strong or weak and has
\* val >= low * M; every pixel with val >= high * M is an edge; strong and
\* weak are disjoint; a discarded pixel (val < low * M) is not an edge,
\* whatever its neighbours are.
C11_EdgesAreAccepted ==
  (hpc \in {"scan", "while", "done"} /\ FGe(highThreshold, lowThreshold)) =>
    LET M == MinMaxLoc(suppressed)
        lowM == FMul(lowThreshold, M)
        highM == FMul(highThreshold, M)
    IN \A p \in DOMAIN suppressed.at :
         LET val == suppressed.at[p]
         IN /\ edges.at[p] = 255 =>
                 /\ strong.at[p] = 255 \/ weak.at[p] = 255
                 /\ FGe(val, lowM)
            /\ strong.at[p] = 255 <=> FGe(val, highM)
            /\ weak.at[p] = 255 <=> (FGe(val, lowM) /\ FLt(val, highM))
            /\ FGe(val, highM) => edges.at[p] = 255
            /\ ~(strong.at[p] = 255 /\ weak.at[p] = 255)
            /\ FLt(val, lowM) => edges.at[p] = 0

\* The returned mask for 0 < low <= high, where a discarded interior pixel
\* has been scanned next to an edge pixel and left out.
C11_Witness ==
  /\ hpc = "done"
  /\ FLt(0, lowThreshold)
  /\ FGe(highThreshold, lowThreshold)
  /\ \E q \in SpecDiscarded \cap Interior(suppressed.rows, suppressed.cols) :
       /\ edges.at[q] = 0
       /\ \E p \in Set255(edges) : Adjacent8(p, q)

----------------------------------------------------------------------
(* EdgeDetectorUI (part_001:59-90, 131-140; edge_detector_ui.hpp:28-32).   *)

\* The ends of the trackbars, part_001:65-67.
LowMax == 100
HighMax == 100
SigmaMax == 50

\* Parameters, edge_detector_ui.hpp:28-32.
DefaultLow == 5
DefaultHigh == 15
DefaultSigma == 14

\* The positions the threshold trackbars are moved to.
ThresholdPositions == {0, DefaultLow, DefaultHigh, 50, LowMax}

\* processImages, lines 71-90: the float ratios and the sigma (in tenths)
\* handed to process, and the kernel size applyGaussianBlur
\* computes from that sigma in both calls.
ProcessImages(pr) ==
  /\ lowThr' = PercentToFloat(pr.lowThresholdRatio)
  /\ highThr' = PercentToFloat(pr.highThresholdRatio)
  /\ sigma' = pr.sigmaValue
  /\ kernelSize' = CalculateGaussianKernelSize(pr.sigmaValue)

\* run: createTrackbars and the first updateDisplay.
Run ==
  /\ upc = "run"
  /\ ProcessImages(uiParams)
  /\ upc' = "loop"
  /\ UNCHANGED uiParams
  /\ UNCHANGED <<hystVars, nmsVars, gradVars, pipeVars>>

\* A trackbar is moved: the position is stored in params and
\* trackbarCallback runs updateDisplay.
LowTrackbar ==
  /\ upc = "loop"
  /\ \E pos \in ThresholdPositions :
       /\ uiParams' = [uiParams EXCEPT !.lowThresholdRatio = pos]
       /\ ProcessImages(uiParams')
  /\ UNCHANGED upc
  /\ UNCHANGED <<hystVars, nmsVars, gradVars, pipeVars>>

HighTrackbar ==
  /\ upc = "loop"
  /\ \E pos \in ThresholdPositions :
       /\ uiParams' = [uiParams EXCEPT !.highThresholdRatio = pos]
       /\ ProcessImages(uiParams')
  /\ UNCHANGED upc
  /\ UNCHANGED <<hystVars, nmsVars, gradVars, pipeVars>>

SigmaTrackbar ==
  /\ upc = "loop"
  /\ \E pos \in 0 .. SigmaMax :
       /\ uiParams' = [uiParams EXCEPT !.sigmaValue = pos]
       /\ ProcessImages(uiParams')
  /\ UNCHANGED upc
  /\ UNCHANGED <<hystVars, nmsVars, gradVars, pipeVars>>

InitUi ==
  /\ uiParams = [lowThresholdRatio |-> DefaultLow,
                 highThresholdRatio |-> DefaultHigh,
                 sigmaValue |-> DefaultSigma]
  /\ lowThr = 0
  /\ highThr = 0
  /\ sigma = 0
  /\ kernelSize = 0
  /\ upc = "run"
  /\ IdleHyst
  /\ IdleNms
  /\ IdleGrad
  /\ IdlePipe

NextUi == Run \/ LowTrackbar \/ HighTrackbar \/ SigmaTrackbar

SpecUI == InitUi /\ [][NextUi]_vars

\* floor(6 * sigma + 1) for sigma = s / 10.
FloorSixSigmaPlusOne(s) ==
  CHOOSE n \in 0 .. 6 * s + 10 : 10 * n <= 6 * s + 10 /\ 6 * s + 10 < 10 * (n + 1)

\* An integer rounded up to an odd one.
RoundToOdd(n) == CHOOSE k \in {n, n + 1} : k % 2 = 1

\* C10: for sigma = k / 10, k in 1 .. 50, the kernel size is
\* max(3, round_to_odd(6 * sigma + 1)): odd, at least 3 and at least
\* floor(6 * sigma + 1).
C10_KernelSize ==
  (upc = "loop" /\ sigma > 0) =>
    /\ kernelSize = Max(3, RoundToOdd(FloorSixSigmaPlusOne(sigma)))
    /\ kernelSize % 2 = 1
    /\ kernelSize >= 3
    /\ kernelSize >= FloorSixSigmaPlusOne(sigma)

\* sigma = 1.5: 6 * sigma + 1 = 10 is even, the kernel size is 11.
C10_Witness == upc = "loop" /\ sigma = 15 /\ kernelSize = 11

\* C12: every call of process the user interface makes, on the first
\* display and after any trackbar change, has sigma in [0.1, 5.0], both
\* ratios in [0, 1] and lowThreshold <= highThreshold.
C12_ParametersInDomain ==
  upc = "loop" =>
    /\ sigma \in 1 .. SigmaMax
    /\ FGe(lowThr, 0) /\ FGe(IntToFloat(1), lowThr)
    /\ FGe(highThr, 0) /\ FGe(IntToFloat(1), highThr)
    /\ FGe(highThr, lowThr)

====
